---------------------------- MODULE Spec2Model ----------------------------
(***************************************************************************)
(* A model of the cedict package (hermanschaaf/cedict): the line           *)
(* tokenizer built on bufio.Scanner, the entry parser and the pinyin tone  *)
(* renderer.  The revision modelled is the latest one in the repository,   *)
(* the one with the tone renderer (src/cedict_test.go lines 120-409).      *)
(*                                                                         *)
(* bufio.Scanner is modelled as far as the package drives it: the loop of   *)
(* Scan over a buffer that never fills (the streams are far shorter than   *)
(* the 64 KiB token limit, so ErrTooLong does not arise).  Two things the  *)
(* source leaves to its environment are chosen in Init: the kind of        *)
(* io.Reader, and whether the build's bufio calls the split function once  *)
(* more at EOF with no data left (it does since Go 1.4).  A Go panic is a  *)
(* result value, "panic", after which no call is made.                     *)
(*                                                                         *)
(* Text is a sequence of one-character strings.  A rune outside ASCII is   *)
(* written by its code point: "U+00FC" is u-diaeresis, "U+0101" is a with  *)
(* macron, and so on; each is ONE element of a sequence, as it is one rune *)
(* of a Go string.                                                         *)
(***************************************************************************)
EXTENDS Integers, Sequences, FiniteSets, TLC

VARIABLES
    lines,      \* the lines of the stream handed to New (ghost: never read by the code)
    finalNL,    \* whether the stream ends with a newline (ghost)
    reader,     \* the io.Reader's kind: how much a Read returns and how it ends
    goEOFSplit, \* the build's bufio: TRUE when Scan calls the split function once more at EOF (Go >= 1.4)
    unread,     \* bytes the reader has not returned yet
    buf,        \* Scanner: s.buf[s.start:s.end], the bytes read and not yet consumed
    serr,       \* Scanner: s.err, "nil", "EOF" or "ErrIO"
    token,      \* Scanner: s.token, what Text() returns
    TokenType,  \* CEDict.TokenType
    entry,      \* CEDict.entry, what Entry() returns
    call,       \* the last public call: "none", "Scan", "NextEntry" or a pure function's name
    ret,        \* what the last call returned
    prevEntry,  \* Entry() before the last call (ghost)
    results,    \* what each NextEntry call returned and left in Entry(), in order (ghost)
    scans,      \* the number of direct Scan calls so far (ghost)
    arg,        \* the argument of the pure function under test
    tonearg,    \* the tone argument of replaceWithToneMark
    out         \* the pure function's result

vars == <<lines, finalNL, reader, goEOFSplit, unread, buf, serr, token, TokenType,
          entry, call, ret, prevEntry, results, scans, arg, tonearg, out>>

scannerVars == <<lines, finalNL, reader, goEOFSplit, unread, buf, serr, token,
                 TokenType, entry, prevEntry, results, scans>>

pureVars == <<arg, tonearg, out>>

-----------------------------------------------------------------------------
(* Bounds of the model. *)

\* the longest stream, in lines
MaxLines == 3
\* the most public calls made on one CEDict
MaxCalls == 5

-----------------------------------------------------------------------------
(* Generic helpers on text. *)

Min(a, b) == IF a < b THEN a ELSE b

\* F applied to the value of e, e being evaluated once
With(e, F(_)) == CHOOSE r \in {F(x) : x \in {e}} : TRUE

\* s[from..] in Go's s[from-1:]
Drop(s, n) == SubSeq(s, n + 1, Len(s))

Take(s, n) == SubSeq(s, 1, n)

\* strings.Contains(s, sub) for a sub of one or two characters
Contains(s, sub) ==
    \E i \in 1..(Len(s) - Len(sub) + 1) : SubSeq(s, i, i + Len(sub) - 1) = sub

RECURSIVE Concat(_)
Concat(ss) == IF Len(ss) = 0 THEN <<>> ELSE Head(ss) \o Concat(Tail(ss))

\* strings.Split(s, sep) for a one-character sep: always at least one piece
RECURSIVE Split(_, _)
Split(s, sep) ==
    IF \A i \in 1..Len(s) : s[i] # sep
    THEN <<s>>
    ELSE LET i == CHOOSE k \in 1..Len(s) : s[k] = sep /\ \A j \in 1..(k - 1) : s[j] # sep
         IN  <<Take(s, i - 1)>> \o Split(Drop(s, i), sep)


\* strings.Replace(s, <<c1, c2>>, <<r>>, -1): every non-overlapping "c1c2", left to right
RECURSIVE ReplacePair(_, _, _, _)
ReplacePair(s, c1, c2, r) ==
    IF Len(s) < 2 THEN s
    ELSE IF s[1] = c1 /\ s[2] = c2
         THEN <<r>> \o ReplacePair(Drop(s, 2), c1, c2, r)
         ELSE <<s[1]>> \o ReplacePair(Tail(s), c1, c2, r)

\* strings.Replace(s, <<c>>, <<r>>, -1): every occurrence of the character c
ReplaceChar(s, c, r) == [i \in 1..Len(s) |-> IF s[i] = c THEN r ELSE s[i]]

\* strings.ToLower on the characters the model uses
LowerOf(c) ==
    CASE c = "A" -> "a" [] c = "B" -> "b" [] c = "P" -> "p" [] c = "U" -> "u"
      [] OTHER -> c

ToLower(s) == [i \in 1..Len(s) |-> LowerOf(s[i])]

-----------------------------------------------------------------------------
(* The tone renderer. *)

UUml == "U+00FC"

\* the rows of lookupTable: the vowel bare, with tones 1 to 4, and bare again
lookupTable ==
    [v \in {"a", "e", "i", "o", "u", UUml} |->
        CASE v = "a"  -> <<"a", "U+0101", "U+00E1", "U+01CE", "U+00E0", "a">>
          [] v = "e"  -> <<"e", "U+0113", "U+00E9", "U+011B", "U+00E8", "e">>
          [] v = "i"  -> <<"i", "U+012B", "U+00ED", "U+01D0", "U+00EC", "i">>
          [] v = "o"  -> <<"o", "U+014D", "U+00F3", "U+01D2", "U+00F2", "o">>
          [] v = "u"  -> <<"u", "U+016B", "U+00FA", "U+01D4", "U+00F9", "u">>
          [] v = UUml -> <<UUml, "U+01D6", "U+01D8", "U+01DA", "U+01DC", UUml>>]

\* toneLookupTable(tone): (map, error)
toneLookupTable(tone) ==
    IF tone < 0 \/ tone > 5
    THEN [err |-> TRUE, lookup |-> [v \in {} |-> ""]]
    ELSE [err |-> FALSE,
          lookup |-> [v \in DOMAIN lookupTable |-> lookupTable[v][tone + 1]]]

\* the value of the last byte of a character's UTF-8 encoding
LastByte(c) ==
    CASE c = " " -> 32 [] c = "," -> 44 [] c = "/" -> 47
      [] c = "0" -> 48 [] c = "1" -> 49 [] c = "2" -> 50 [] c = "3" -> 51
      [] c = "4" -> 52 [] c = "5" -> 53 [] c = "6" -> 54 [] c = "9" -> 57
      [] c = ":" -> 58 [] c = "[" -> 91 [] c = "]" -> 93
      [] c = "A" -> 65 [] c = "B" -> 66 [] c = "P" -> 80 [] c = "U" -> 85
      [] c = "a" -> 97 [] c = "b" -> 98 [] c = "d" -> 100 [] c = "e" -> 101
      [] c = "f" -> 102 [] c = "g" -> 103 [] c = "i" -> 105 [] c = "j" -> 106
      [] c = "l" -> 108 [] c = "n" -> 110 [] c = "o" -> 111 [] c = "p" -> 112
      [] c = "r" -> 114 [] c = "u" -> 117 [] c = "v" -> 118 [] c = "x" -> 120
      [] c = "y" -> 121 [] c = "z" -> 122
      [] c = "#" -> 35 [] c = "c" -> 99
      [] c = UUml -> 188
      [] OTHER -> 128   \* any other character: never one of "0".."5"

\* extractTone(p): (syllable, tone); p[len(p)-1] panics on the empty string
extractTone(p) ==
    IF Len(p) = 0
    THEN [panic |-> TRUE, s |-> <<>>, tone |-> 0]
    ELSE LET tone == LastByte(p[Len(p)]) - 48
         IN  IF tone < 0 \/ tone > 5
             THEN [panic |-> FALSE, s |-> p, tone |-> 0]
             ELSE [panic |-> FALSE, s |-> Take(p, Len(p) - 1), tone |-> tone]

\* strings.LastIndexAny(s, "iüou"), 1-based; 0 when there is none
LastIndexAny(s, chars) ==
    IF \A i \in 1..Len(s) : s[i] \notin chars
    THEN 0
    ELSE CHOOSE i \in 1..Len(s) :
            s[i] \in chars /\ \A j \in (i + 1)..Len(s) : s[j] \notin chars

\* replaceWithToneMark(s, tone): (string, error)
replaceWithToneMark(s, tone) ==
    LET t == toneLookupTable(tone)
        index == LastIndexAny(s, {"i", UUml, "o", "u"})
    IN  IF t.err THEN [err |-> TRUE, str |-> <<>>]
        ELSE IF Contains(s, <<"a">>)
             THEN [err |-> FALSE, str |-> ReplaceChar(s, "a", t.lookup["a"])]
        ELSE IF Contains(s, <<"e">>)
             THEN [err |-> FALSE, str |-> ReplaceChar(s, "e", t.lookup["e"])]
        ELSE IF Contains(s, <<"o", "u">>)
             THEN [err |-> FALSE, str |-> ReplaceChar(s, "o", t.lookup["o"])]
        ELSE IF index # 0
             THEN [err |-> FALSE,
                   str |-> [i \in 1..Len(s) |->
                               IF i = index THEN t.lookup[s[i]] ELSE s[i]]]
        ELSE [err |-> TRUE, str |-> <<>>]

\* the loop of convertToTones over the syllables py, out being what is written so far
RECURSIVE convertLoop(_, _)
convertLoop(py, acc) ==
    IF Len(py) = 0 THEN [panic |-> FALSE, str |-> acc]
    ELSE LET x == extractTone(Head(py))
             w == replaceWithToneMark(x.s, x.tone)
         IN  IF x.panic THEN [panic |-> TRUE, str |-> <<>>]
             ELSE IF w.err THEN [panic |-> FALSE, str |-> <<>>]
             ELSE convertLoop(Tail(py), acc \o w.str)

\* convertToTones(p)
convertToTones(p) ==
    LET pv == ReplacePair(p, "u", ":", UUml)
        py == Split(pv, " ")
    IN  convertLoop(py, <<>>)

\* the loop of pinyinNoTones
RECURSIVE noTonesLoop(_, _)
noTonesLoop(py, acc) ==
    IF Len(py) = 0 THEN [panic |-> FALSE, str |-> acc]
    ELSE LET x == extractTone(Head(py))
         IN  IF x.panic THEN [panic |-> TRUE, str |-> <<>>]
             ELSE noTonesLoop(Tail(py), acc \o x.s)

\* pinyinNoTones(p)
pinyinNoTones(p) ==
    LET pv == ReplacePair(p, "u", ":", "v")
        py == Split(pv, " ")
    IN  noTonesLoop(py, <<>>)

-----------------------------------------------------------------------------
(* The entry parser. *)

\* the nil *Entry
NilEntry == [nil |-> TRUE]

\* the class \s of the regular expression
IsSpace(c) == c \in {" ", "\t", "\n", "\f", "\r"}

\* the first position of s at or after p that holds white space; 0 when there is none
NextSpace(s, p) ==
    IF \A x \in p..Len(s) : ~IsSpace(s[x]) THEN 0
    ELSE CHOOSE x \in p..Len(s) : IsSpace(s[x]) /\ \A y \in p..(x - 1) : ~IsSpace(s[y])

\* the largest member of a non-empty set of positions
MaxOf(S) == CHOOSE x \in S : \A y \in S : y <= x

MinOf(S) == CHOOSE x \in S : \A y \in S : x <= y

(* reEntry, `(?P<trad>\S*?) (?P<simp>\S*?) \[(?P<pinyin>.+)\] \/(?P<defs>.+)\/`,   *)
(* matched from position st.  A match is <<st, i, j, k, m>>: trad is s[st..i-1]   *)
(* and s[i] the space after it, simp is s[i+1..j-1] and s[j..j+1] is " [",        *)
(* pinyin is s[j+2..k-1] and s[k..k+2] is "] /", defs is s[k+3..m-1] and s[m] is  *)
(* the closing "/".  A run of \S followed by a space ends at the first white      *)
(* space, so i and j are fixed by st; the greedy .+ of pinyin takes the last      *)
(* "] /" that still leaves a defs, and the greedy .+ of defs the last "/".        *)
(* <<>> when there is no match from st.                                           *)
reEntryAt(s, st) ==
    LET i == NextSpace(s, st)
        j == IF i = 0 THEN 0 ELSE NextSpace(s, i + 1)
        K == {k \in (j + 3)..(Len(s) - 2) :
                /\ s[k] = "]" /\ s[k + 1] = " " /\ s[k + 2] = "/"
                /\ \A x \in (j + 2)..(k - 1) : s[x] # "\n"
                /\ \E m \in (k + 4)..Len(s) :
                      s[m] = "/" /\ \A x \in (k + 3)..(m - 1) : s[x] # "\n"}
        k == MaxOf(K)
        m == MaxOf({x \in (k + 4)..Len(s) :
                      s[x] = "/" /\ \A y \in (k + 3)..(x - 1) : s[y] # "\n"})
    IN  IF i = 0 \/ s[i] # " " THEN <<>>
        ELSE IF j = 0 \/ s[j] # " " \/ j + 1 > Len(s) THEN <<>>
        ELSE IF s[j + 1] # "[" \/ K = {} THEN <<>>
        ELSE <<st, i, j, k, m>>

\* reEntry.FindStringSubmatch(s): the match at the leftmost position that has one
FindStringSubmatch(s) ==
    LET M == {reEntryAt(s, st) : st \in 1..Len(s)} \ {<<>>}
    IN  IF M = {} THEN <<>> ELSE CHOOSE a \in M : \A b \in M : a[1] <= b[1]

\* parseEntry without its "match == nil" test: a zero Entry comes back for any line
parseEntryNoNilCheck(s) ==
    With(FindStringSubmatch(s), LAMBDA match :
        IF match = <<>>
        THEN [kind |-> "ok",
              e |-> [Traditional |-> <<>>, Simplified |-> <<>>, Pinyin |-> <<>>,
                     PinyinWithTones |-> <<>>, PinyinNoTones |-> <<>>,
                     Definitions |-> <<>>]]
        ELSE With(ToLower(SubSeq(s, match[3] + 2, match[4] - 1)), LAMBDA Pinyin :
             With(<<convertToTones(Pinyin), pinyinNoTones(Pinyin)>>, LAMBDA tones :
                IF tones[1].panic \/ tones[2].panic
                THEN [kind |-> "panic", e |-> NilEntry]
                ELSE [kind |-> "ok",
                      e |-> [Traditional |-> SubSeq(s, match[1], match[2] - 1),
                             Simplified |-> SubSeq(s, match[2] + 1, match[3] - 1),
                             Pinyin |-> Pinyin,
                             PinyinWithTones |-> tones[1].str,
                             PinyinNoTones |-> tones[2].str,
                             Definitions |->
                                Split(SubSeq(s, match[4] + 3, match[5] - 1), "/")]])))

\* parseEntry(s): (*Entry, error); a panic of the tone renderer passes through it
parseEntry(s) ==
    With(FindStringSubmatch(s), LAMBDA match :
        IF match = <<>> THEN [kind |-> "BadFormat", e |-> NilEntry]
        ELSE With(ToLower(SubSeq(s, match[3] + 2, match[4] - 1)), LAMBDA Pinyin :
             With(<<convertToTones(Pinyin), pinyinNoTones(Pinyin)>>, LAMBDA tones :
                IF tones[1].panic \/ tones[2].panic
                THEN [kind |-> "panic", e |-> NilEntry]
                ELSE [kind |-> "ok",
                      e |-> [Traditional |-> SubSeq(s, match[1], match[2] - 1),
                             Simplified |-> SubSeq(s, match[2] + 1, match[3] - 1),
                             Pinyin |-> Pinyin,
                             PinyinWithTones |-> tones[1].str,
                             PinyinNoTones |-> tones[2].str,
                             Definitions |->
                                Split(SubSeq(s, match[4] + 3, match[5] - 1), "/")]])))

-----------------------------------------------------------------------------
(* The line tokenizer: the split function of New and bufio.Scanner's Scan. *)

EntryToken == 0
CommentToken == 1

\* bufio's startBufSize: the most one Read can return into the fresh buffer
StartBufSize == 4096

\* the first position of data that holds a newline; 0 when there is none
FirstNewline(data) ==
    IF \A i \in 1..Len(data) : data[i] # "\n" THEN 0
    ELSE CHOOSE i \in 1..Len(data) : data[i] = "\n" /\ \A j \in 1..(i - 1) : data[j] # "\n"

(* A split function's result.  accum starts as a nil slice and is non-nil  *)
(* once a byte is appended to it, so the token is nil exactly when it is   *)
(* empty: tokenNil is kept beside the text as Scan tests token != nil.     *)
SplitResult(advance, accum, isNil) ==
    [advance |-> advance, token |-> accum, tokenNil |-> isNil]

\* consumeComment(data, atEOF): the loop returns at the first newline, or at EOF at
\* the last byte of data, with the bytes BEFORE that position
consumeComment(data, atEOF) ==
    LET nl == FirstNewline(data)
        stop == IF nl # 0 THEN nl
                ELSE IF atEOF /\ Len(data) > 0 THEN Len(data)
                ELSE 0
    IN  IF stop # 0 THEN SplitResult(stop, Take(data, stop - 1), stop = 1)
        ELSE IF atEOF THEN SplitResult(Len(data), data, Len(data) = 0)
        ELSE SplitResult(0, <<>>, TRUE)

\* consumeEntry(data, atEOF): the loop returns at the first newline; at EOF all of data
consumeEntry(data, atEOF) ==
    LET nl == FirstNewline(data)
    IN  IF nl # 0 THEN SplitResult(nl, Take(data, nl - 1), nl = 1)
        ELSE IF atEOF THEN SplitResult(Len(data), data, Len(data) = 0)
        ELSE SplitResult(0, <<>>, TRUE)

\* splitFunc(data, atEOF) of New: data[0] panics on empty data; sets c.TokenType
splitFunc(data, atEOF) ==
    IF Len(data) = 0
    THEN [panic |-> TRUE, r |-> SplitResult(0, <<>>, TRUE), TokenType |-> EntryToken]
    ELSE IF data[1] = "#"
         THEN [panic |-> FALSE, r |-> consumeComment(data, atEOF), TokenType |-> CommentToken]
         ELSE [panic |-> FALSE, r |-> consumeEntry(data, atEOF), TokenType |-> EntryToken]

(* One s.r.Read into the scanner's buffer.  The reader kinds: strings.Reader   *)
(* returns all it has, then (0, EOF); iotest.OneByteReader one byte a Read;    *)
(* iotest.DataErrReader the last bytes together with EOF; "failing" a reader   *)
(* that ends in an I/O error instead of EOF.                                   *)
ReadInto(s) ==
    LET n == Min(IF reader = "OneByteReader" THEN 1 ELSE StartBufSize, Len(s.unread))
        rest == Drop(s.unread, n)
        final == IF reader = "failing" THEN "ErrIO" ELSE "EOF"
    IN  [s EXCEPT !.buf = s.buf \o Take(s.unread, n),
                  !.unread = rest,
                  !.err = IF n = 0 \/ (reader = "DataErrReader" /\ Len(rest) = 0)
                          THEN final ELSE "nil"]

(* bufio.Scanner.Scan on the scanner state s = [unread, buf, err, token,      *)
(* TokenType]: the loop "split what is held, else read more".  goEOFSplit is  *)
(* the loop's first condition: s.end > s.start || s.err != nil since Go 1.4,  *)
(* s.end > s.start before.  The result is s with outcome "token" (Scan        *)
(* returned true), "false" or "panic".                                        *)
RECURSIVE ScanLoop(_)
ScanLoop(s0) ==
    With(s0, LAMBDA s :
        LET sp == splitFunc(s.buf, s.err # "nil")
            s1 == [s EXCEPT !.buf = Drop(s.buf, sp.r.advance),
                            !.token = sp.r.token,
                            !.TokenType = sp.TokenType]
            trySplit == Len(s.buf) > 0 \/ (goEOFSplit /\ s.err # "nil")
            s2 == IF trySplit THEN s1 ELSE s
        IN  IF trySplit /\ sp.panic THEN [s EXCEPT !.outcome = "panic"]
            ELSE IF trySplit /\ ~sp.r.tokenNil THEN [s1 EXCEPT !.outcome = "token"]
            ELSE IF s2.err # "nil" THEN [s2 EXCEPT !.buf = <<>>, !.outcome = "false"]
            ELSE ScanLoop(ReadInto(s2)))

\* the scanner state held in the variables
ScannerState ==
    [unread |-> unread, buf |-> buf, err |-> serr, token |-> token,
     TokenType |-> TokenType, outcome |-> "none"]

(* CEDict.NextEntry from scanner state s: Scan until an entry token, parse it. *)
(* The result is the scanner state reached, with ret the value returned       *)
(* ("ok" for nil, "BadFormat", "NoMoreEntries", "ReadFailure") or "panic",    *)
(* and e the Entry parsed when ret is "ok".                                   *)
RECURSIVE NextEntryLoop(_)
NextEntryLoop(s) ==
    With(ScanLoop(s), LAMBDA s1 :
        IF s1.outcome = "panic" THEN [s |-> s1, ret |-> "panic", e |-> NilEntry]
        ELSE IF s1.outcome = "false"
             THEN [s |-> s1,
                   ret |-> IF s1.err # "nil" /\ s1.err # "EOF"
                           THEN "ReadFailure" ELSE "NoMoreEntries",
                   e |-> NilEntry]
        ELSE IF s1.TokenType = EntryToken
             THEN With(parseEntry(s1.token), LAMBDA pe :
                     [s |-> s1, ret |-> pe.kind, e |-> pe.e])
        ELSE NextEntryLoop(s1))

-----------------------------------------------------------------------------
(* The tokenizer driven over bounded streams by its two public calls. *)

LComment == <<"#", "c">>
LHash == <<"#">>
LBlank == <<>>
LEntry1 == <<"A", " ", "B", " ", "[", "a", "1", "]", " ", "/", "d", "/">>
LEntry2 == <<"b", " ", "b", " ", "[", "U", ":", "2", "]", " ", "/", "e", "/", "f", "/">>
LNoBracket == <<"A", " ", "B", " ", "[", "a", "1", " ", "/", "d", "/">>
LNoDefs == <<"A", " ", "B", " ", "[", "a", "1", "]", " ", "d">>

StreamLines == {LComment, LHash, LBlank, LEntry1, LEntry2, LNoBracket, LNoDefs}

Readers == {"strings.Reader", "OneByteReader", "DataErrReader", "failing"}

\* the text of a stream: its lines, a newline after each but, without finalNL, the last
RECURSIVE StreamText(_, _)
StreamText(ls, nl) ==
    IF Len(ls) = 0 THEN <<>>
    ELSE IF Len(ls) = 1 THEN ls[1] \o (IF nl THEN <<"\n">> ELSE <<>>)
    ELSE ls[1] \o <<"\n">> \o StreamText(Tail(ls), nl)

\* New(r): a scanner that has read nothing, no entry
Init ==
    /\ lines \in UNION {[1..n -> StreamLines] : n \in 0..MaxLines}
    /\ finalNL \in BOOLEAN
    /\ ~finalNL => (Len(lines) > 0 /\ lines[Len(lines)] # LBlank) \/ lines = <<>>
    /\ finalNL => Len(lines) > 0
    /\ reader \in Readers
    /\ goEOFSplit \in BOOLEAN
    /\ unread = StreamText(lines, finalNL)
    /\ buf = <<>> /\ serr = "nil" /\ token = <<>> /\ TokenType = EntryToken
    /\ entry = NilEntry /\ prevEntry = NilEntry
    /\ results = <<>> /\ scans = 0
    /\ call = "none" /\ ret = "none"
    /\ arg = <<>> /\ tonearg = 0 /\ out = <<>>

\* the calls made so far stay within the bound, and the process has not died of a panic
MayCall == ret # "panic" /\ Len(results) + scans < MaxCalls

\* c.Scan(), called directly (the lower-level API)
Scan ==
    /\ MayCall
    /\ \E s \in {ScanLoop(ScannerState)} :
           /\ unread' = s.unread /\ buf' = s.buf /\ serr' = s.err
           /\ token' = s.token /\ TokenType' = s.TokenType
           /\ ret' = CASE s.outcome = "token" -> "true"
                       [] s.outcome = "false" -> "false"
                       [] OTHER -> "panic"
    /\ call' = "Scan"
    /\ scans' = scans + 1
    /\ prevEntry' = entry
    /\ UNCHANGED <<lines, finalNL, reader, goEOFSplit, entry, results, pureVars>>

\* c.NextEntry()
NextEntry ==
    /\ MayCall
    /\ \E r \in {NextEntryLoop(ScannerState)} :
           /\ unread' = r.s.unread /\ buf' = r.s.buf /\ serr' = r.s.err
           /\ token' = r.s.token /\ TokenType' = r.s.TokenType
           /\ ret' = r.ret
           /\ entry' = IF r.ret = "ok" THEN r.e ELSE entry
           /\ results' = Append(results, [ret |-> r.ret,
                                          Entry |-> IF r.ret = "ok" THEN r.e ELSE entry])
    /\ call' = "NextEntry"
    /\ prevEntry' = entry
    /\ UNCHANGED <<lines, finalNL, reader, goEOFSplit, scans, pureVars>>

Next == Scan \/ NextEntry

Spec == Init /\ [][Next]_vars

-----------------------------------------------------------------------------
(* The claims about the tokenizer. *)

IsComment(l) == Len(l) > 0 /\ l[1] = "#"

NotComment(l) == ~IsComment(l)

\* the lines of the stream that are not comments, in order
EntryLines == SelectSeq(lines, NotComment)

\* every line is a comment or a well-formed entry
WellFormedStream == \A i \in 1..Len(lines) : lines[i] \in {LComment, LHash, LEntry1, LEntry2}

HasChar(l, c) == \E i \in 1..Len(l) : l[i] = c

\* some text stands between two slashes
HasDefsSegment(l) == \E i, j \in 1..Len(l) : i + 1 < j /\ l[i] = "/" /\ l[j] = "/"

(* C1: over a stream of comments and well-formed entry lines, with or      *)
(* without a final newline, the NextEntry calls succeed once per entry     *)
(* line, in source order, Entry() being the parse of that line; comments   *)
(* never become entries; the first call after the last entry line returns  *)
(* NoMoreEntries, not a read failure and not a crash.                      *)
C1_EntriesInOrderThenNoMore ==
    (scans = 0 /\ WellFormedStream /\ reader # "failing") =>
        \A k \in 1..Len(results) :
            /\ k <= Len(EntryLines) =>
                 results[k] = [ret |-> "ok", Entry |-> parseEntry(EntryLines[k]).e]
            /\ k = Len(EntryLines) + 1 => results[k].ret = "NoMoreEntries"

\* the part of C1 before the end of the stream: the entries come in order
C1_EntriesInOrder ==
    (scans = 0 /\ WellFormedStream /\ reader # "failing") =>
        \A k \in 1..Len(results) :
            k <= Len(EntryLines) =>
                 results[k] = [ret |-> "ok", Entry |-> parseEntry(EntryLines[k]).e]

(* C2: when NextEntry reaches an entry line that lacks the closing "]" or  *)
(* lacks a "/"-delimited definition segment, it returns a bad-format       *)
(* error, produces no Entry for the line, and Entry() is what it was       *)
(* before the call (nil if nothing had been parsed).                       *)
C2_BadFormatLeavesEntry ==
    (/\ call = "NextEntry"
     /\ ret \in {"ok", "BadFormat"}
     /\ ~HasChar(token, "]") \/ ~HasDefsSegment(token)) =>
        /\ ret = "BadFormat"
        /\ entry = prevEntry
        /\ results[Len(results)].Entry = prevEntry

\* C2's case: a line without "]" is refused after an entry had been parsed
C2_Witness ==
    /\ call = "NextEntry" /\ ret = "BadFormat"
    /\ token = LNoBracket
    /\ prevEntry # NilEntry /\ entry = prevEntry

\* C2's other case: a line without definitions is refused before any entry was parsed
C2_WitnessNoDefs ==
    /\ call = "NextEntry" /\ ret = "BadFormat"
    /\ token = LNoDefs
    /\ entry = NilEntry

(* C7: a blank line is delivered by Scan as an Entry-classified token, and *)
(* NextEntry reports it as a bad-format error; it is never skipped.        *)
C7_BlankLineReported ==
    /\ (/\ call = "Scan" /\ results = <<>> /\ scans <= Len(lines)
        /\ \A i \in 1..(scans - 1) : lines[i] # LBlank
        /\ lines[scans] = LBlank) =>
            (ret = "true" /\ token = <<>> /\ TokenType = EntryToken)
    /\ (/\ call = "NextEntry" /\ scans = 0 /\ Len(results) <= Len(lines)
        /\ \A i \in 1..(Len(results) - 1) : lines[i] \in {LEntry1, LEntry2}
        /\ lines[Len(results)] = LBlank) =>
            ret = "BadFormat"

(* C8: when the last line of the stream has no trailing newline, Scan      *)
(* still returns it as a token whose text is the complete line, for a      *)
(* comment line and for an entry line.                                     *)
C8_LastLineComplete ==
    (/\ call = "Scan" /\ results = <<>> /\ ~finalNL
     /\ scans = Len(lines)
     /\ \A i \in 1..Len(lines) : lines[i] # LBlank) =>
        /\ ret = "true"
        /\ token = lines[Len(lines)]
        /\ TokenType = IF IsComment(lines[Len(lines)]) THEN CommentToken ELSE EntryToken

\* the part of C8 that is about entry lines
C8_LastEntryLineComplete ==
    (/\ call = "Scan" /\ results = <<>> /\ ~finalNL
     /\ scans = Len(lines)
     /\ \A i \in 1..Len(lines) : lines[i] # LBlank
     /\ NotComment(lines[Len(lines)])) =>
        (ret = "true" /\ token = lines[Len(lines)] /\ TokenType = EntryToken)

\* every line is a comment or an entry line, well-formed or malformed, and
\* at least one line is malformed
MalformedStream ==
    /\ \A i \in 1..Len(lines) :
          lines[i] \in {LComment, LHash, LEntry1, LEntry2, LNoBracket, LNoDefs}
    /\ \E i \in 1..Len(lines) : lines[i] \in {LNoBracket, LNoDefs}

\* what the k-th NextEntry call returns when it handles the k-th entry line
\* alone: the parse of that line, or the error with Entry() left as it was
LineResult(k) ==
    With(parseEntry(EntryLines[k]), LAMBDA pe :
        IF pe.kind = "ok" THEN [ret |-> "ok", Entry |-> pe.e]
        ELSE [ret |-> pe.kind,
              Entry |-> IF k = 1 THEN NilEntry ELSE results[k - 1].Entry])

(* C11: a bad-format error is local to one line: over a stream that holds  *)
(* malformed entry lines, the k-th NextEntry call answers for the k-th     *)
(* entry line alone (the error for a malformed line, the Entry for a       *)
(* well-formed one, whatever came before), so the entries after a          *)
(* malformed line are still delivered in order, and the call after the     *)
(* last entry line returns NoMoreEntries.                                  *)
C11_BadFormatIsLocal ==
    (scans = 0 /\ MalformedStream /\ reader # "failing") =>
        \A k \in 1..Len(results) :
            /\ k <= Len(EntryLines) => results[k] = LineResult(k)
            /\ k = Len(EntryLines) + 1 => results[k].ret = "NoMoreEntries"

\* the part of C11 before the end of the stream: one call per entry line,
\* the call after a malformed line resuming at the next line
C11_ResumesAfterBadFormat ==
    (scans = 0 /\ MalformedStream /\ reader # "failing") =>
        \A k \in 1..Len(results) :
            k <= Len(EntryLines) => results[k] = LineResult(k)

\* C11 on a bufio that does not call the split function with empty data
C11_HoldsWithoutEOFSplit ==
    ~goEOFSplit => C11_BadFormatIsLocal

\* C11's case: an entry is delivered by the call after a bad-format error
C11_EntryAfterBadFormat ==
    /\ scans = 0 /\ Len(results) >= 2
    /\ results[Len(results) - 1].ret = "BadFormat"
    /\ results[Len(results)].ret = "ok"

-----------------------------------------------------------------------------
(* The pure functions of the tone renderer, applied to bounded inputs. *)

\* the longest generated pinyin input, in characters
MaxPinyin == 4

PinyinAlphabet == {"a", "e", "i", "o", "u", ":", "n", " ", ",", "0", "1", "5", "6", UUml}

\* all the texts over alphabet A of length at most n
SeqsUpTo(A, n) == UNION {[1..k -> A] : k \in 0..n}

\* the pinyin fields of the package's tests and documentation
ExYanBuJian == <<"y", "a", "n", "3", " ", "b", "u", "4", " ", "j", "i", "a", "n", "4", " ", ",", " ", "x", "i", "n", "1", " ", "b", "u", "4", " ", "f", "a", "n", "2">>
ExYiLanZi == <<"y", "i", "1", " ", "l", "a", "n", "3", " ", "z", "i", "5">>
ExLu4 == <<"l", "u", ":", "4">>
ExDianR == <<"d", "i", "a", "n", "3", " ", "r", "5">>
ExDong1 == <<"d", "o", "n", "g", "1">>

PinyinExamples == {ExYanBuJian, ExYiLanZi, ExLu4, ExDianR, ExDong1}

PinyinInputs == SeqsUpTo(PinyinAlphabet, MaxPinyin) \cup PinyinExamples

\* the tones replaceWithToneMark is called with, and one on each side
Tones == -1..6

\* the scanner's variables at rest, for the specifications that exercise pure functions
ScannerIdle ==
    /\ lines = <<>> /\ finalNL = FALSE /\ reader = "strings.Reader" /\ goEOFSplit = TRUE
    /\ unread = <<>> /\ buf = <<>> /\ serr = "nil" /\ token = <<>> /\ TokenType = 0
    /\ entry = NilEntry /\ prevEntry = NilEntry /\ results = <<>> /\ scans = 0

InitTone ==
    /\ ScannerIdle
    /\ call = "none" /\ ret = "none"
    /\ arg \in PinyinInputs
    /\ tonearg = 0
    /\ out = <<>>

CallExtractTone ==
    /\ call = "none"
    /\ call' = "extractTone"
    /\ out' = extractTone(arg)
    /\ UNCHANGED <<scannerVars, ret, arg, tonearg>>

CallReplaceWithToneMark ==
    /\ call = "none"
    /\ \E t \in Tones :
        /\ tonearg' = t
        /\ out' = replaceWithToneMark(arg, t)
    /\ call' = "replaceWithToneMark"
    /\ UNCHANGED <<scannerVars, ret, arg>>

CallConvertToTones ==
    /\ call = "none"
    /\ call' = "convertToTones"
    /\ out' = convertToTones(arg)
    /\ UNCHANGED <<scannerVars, ret, arg, tonearg>>

CallPinyinNoTones ==
    /\ call = "none"
    /\ call' = "pinyinNoTones"
    /\ out' = pinyinNoTones(arg)
    /\ UNCHANGED <<scannerVars, ret, arg, tonearg>>

NextTone ==
    \/ CallExtractTone
    \/ CallReplaceWithToneMark
    \/ CallConvertToTones
    \/ CallPinyinNoTones

SpecTone == InitTone /\ [][NextTone]_vars

-----------------------------------------------------------------------------
(* What the claims about the tone renderer require, stated independently of the code. *)

ToneDigits == {"1", "2", "3", "4", "5"}

\* the syllable tokens of a pinyin field, "u:" already replaced by r
TokensOf(p, r) == Split(ReplacePair(p, "u", ":", r), " ")

NoEmptyToken(p) == \A i \in 1..Len(TokensOf(p, "v")) : Len(TokensOf(p, "v")[i]) > 0

\* a token without its trailing tone digit 1..5, if it has one
StripTone(tok) ==
    IF Len(tok) > 0 /\ tok[Len(tok)] \in ToneDigits THEN Take(tok, Len(tok) - 1) ELSE tok

\* the tone of a token: its trailing digit 1..5, else 0 (unset)
ToneOf(tok) ==
    IF Len(tok) > 0 /\ tok[Len(tok)] \in ToneDigits
    THEN CHOOSE t \in 1..5 : LastByte(tok[Len(tok)]) = 48 + t
    ELSE 0

\* the position the placement rules mark in a base syllable; 0 when no vowel can be marked
MarkedIndex(s) ==
    LET first(X) == CHOOSE i \in 1..Len(s) : s[i] \in X /\ \A j \in 1..(i - 1) : s[j] \notin X
    IN  IF Contains(s, <<"a">>) THEN first({"a"})
        ELSE IF Contains(s, <<"e">>) THEN first({"e"})
        ELSE IF Contains(s, <<"o", "u">>)
             THEN CHOOSE i \in 1..(Len(s) - 1) :
                    /\ s[i] = "o" /\ s[i + 1] = "u"
                    /\ \A j \in 1..(i - 1) : ~(s[j] = "o" /\ s[j + 1] = "u")
        ELSE LastIndexAny(s, {"i", UUml, "o", "u"})

\* whether a base syllable holds a vowel more than once (no pinyin syllable does)
RepeatsVowel(s) ==
    \E i, j \in 1..Len(s) : i # j /\ s[i] = s[j] /\ s[i] \in DOMAIN lookupTable

\* a base syllable as extractTone leaves it: not empty, no space, no repeated vowel
IsBaseSyllable(s) ==
    /\ Len(s) > 0
    /\ \A i \in 1..Len(s) : s[i] # " "
    /\ ~RepeatsVowel(s)

\* a token rendered with its tone mark; a token with nothing to mark passes through
RenderToken(tok) ==
    LET s == StripTone(tok)
        t == ToneOf(tok)
        k == MarkedIndex(s)
    IN  IF k = 0 \/ t \in {0, 5} THEN s
        ELSE [i \in 1..Len(s) |-> IF i = k THEN lookupTable[s[i]][t + 1] ELSE s[i]]

RenderAll(toks) == Concat([i \in 1..Len(toks) |-> RenderToken(toks[i])])

(* C4: convertToTones passes a token with no markable vowel (a standalone   *)
(* comma) through unchanged and still marks every other syllable of the     *)
(* field: "yan3 bu4 jian4 , xin1 bu4 fan2" renders with the comma kept, and *)
(* no field is emptied because one of its tokens cannot be marked.          *)
C4_UnmarkablePassesThrough ==
    (call = "convertToTones" /\ NoEmptyToken(arg)) =>
        /\ arg = ExYanBuJian =>
             out.str = <<"y", "U+01CE", "n", "b", "U+00F9", "j", "i", "U+00E0", "n", ",",
                         "x", "U+012B", "n", "b", "U+00F9", "f", "U+00E1", "n">>
        /\ (\A i \in 1..Len(TokensOf(arg, UUml)) : ~RepeatsVowel(TokensOf(arg, UUml)[i]))
             => out.str = RenderAll(TokensOf(arg, UUml))

(* C5: tone rendering is total: convertToTones and pinyinNoTones return a   *)
(* string for every input, the empty string and inputs with empty syllable  *)
(* tokens included, and never crash.                                        *)
C5_RenderingTotal ==
    call \in {"convertToTones", "pinyinNoTones"} => out.panic = FALSE

(* C6: pinyinNoTones returns the concatenation of the field's tokens, each  *)
(* with "u:" replaced by "v" and its trailing tone digit 1..5 removed, and  *)
(* nothing else changed.                                                    *)
C6_NoTonesStripsOnlyTones ==
    (call = "pinyinNoTones" /\ NoEmptyToken(arg)) =>
        out = [panic |-> FALSE,
               str |-> Concat([i \in 1..Len(TokensOf(arg, "v")) |->
                                  StripTone(TokensOf(arg, "v")[i])])]

(* C9: for a tone 1..4 replaceWithToneMark replaces exactly one character   *)
(* of the base syllable, the one the placement rules name, by its           *)
(* precomposed diacritic; for tone 5 or an unset tone it returns the        *)
(* syllable with no mark.                                                   *)
C9_MarksExactlyOne ==
    (call = "replaceWithToneMark" /\ IsBaseSyllable(arg)) =>
        /\ (tonearg \in {0, 5}) => out = [err |-> FALSE, str |-> arg]
        /\ (tonearg \in 1..4 /\ MarkedIndex(arg) # 0) =>
             out = [err |-> FALSE,
                    str |-> [i \in 1..Len(arg) |->
                                IF i = MarkedIndex(arg)
                                THEN lookupTable[arg[i]][tonearg + 1] ELSE arg[i]]]

(* C10: extractTone strips the last character and returns it as the tone    *)
(* only when it is a digit 1..5; a token ending in anything else, the digit *)
(* 0 included, comes back unchanged with the tone unset.                    *)
C10_StripsOnlyOneToFive ==
    (call = "extractTone" /\ Len(arg) > 0) =>
        out = [panic |-> FALSE, s |-> StripTone(arg), tone |-> ToneOf(arg)]

(* The model reproduces the examples of the package's comments:             *)
(* dong1 => U+014D in dong, yi1 lan3 zi5 => yilanzi with its marks; and a   *)
(* field holding a token without a vowel renders as the empty string.       *)
ToneExamples ==
    /\ (call = "convertToTones" /\ arg = ExYiLanZi) => out.str = <<"y","U+012B","l","U+01CE","n","z","i">>
    /\ (call = "convertToTones" /\ arg = ExYiLanZi) => out.str = RenderAll(TokensOf(arg, UUml))
    /\ (call = "pinyinNoTones" /\ arg = ExYiLanZi) => out.str = <<"y","i","l","a","n","z","i">>
    /\ (call = "pinyinNoTones" /\ arg = ExLu4) => out.str = <<"l","v">>
    /\ (call = "convertToTones" /\ arg = ExLu4) => out.str = <<"l","U+01DC">>
    /\ (call = "convertToTones" /\ arg = ExDong1) => out.str = <<"d","U+014D","n","g">>
    /\ (call = "convertToTones" /\ arg = ExYanBuJian) => out = [panic |-> FALSE, str |-> <<>>]
    /\ (call = "convertToTones" /\ arg = ExDianR) => out = [panic |-> FALSE, str |-> <<>>]

-----------------------------------------------------------------------------
(* parseEntry applied to bounded inputs: the lines TRAD SIMP [PINYIN] /DEF1/../DEFn/ *)
(* built from small sets of fields, and each of them with one character deleted.   *)

\* the most definitions of a generated line
MaxDefs == 2

ScriptForms == {<<"A">>, <<"B", "b">>}
PinyinFields == {<<"a", "1">>, <<"U", ":", "2">>, <<"a", "1", " ", "b", "5">>, <<"P">>}
DefTexts == {<<"d">>, <<"e", " ", "f">>, <<"x", "]", " ">>, <<"[", "x", "]">>}
DefLists == UNION {[1..n -> DefTexts] : n \in 1..MaxDefs}

\* "/DEF1/DEF2/.../DEFn/"
RECURSIVE DefsSegment(_)
DefsSegment(defs) ==
    IF Len(defs) = 0 THEN <<"/">> ELSE <<"/">> \o Head(defs) \o DefsSegment(Tail(defs))

\* the entry line of the four fields
EntryLine(trad, simp, pinyin, defs) ==
    trad \o <<" ">> \o simp \o <<" ", "[">> \o pinyin \o <<"]", " ">> \o DefsSegment(defs)

GrammarLines ==
    {EntryLine(t, sm, py, ds) : t \in ScriptForms, sm \in ScriptForms,
                                py \in PinyinFields, ds \in DefLists}

\* s without its n-th character
Without(s, n) == Take(s, n - 1) \o Drop(s, n)

DamagedLines ==
    UNION {{Without(l, n) : n \in 1..Len(l)} :
             l \in {EntryLine(<<"A">>, <<"B", "b">>, py, <<d>>) :
                      py \in PinyinFields, d \in DefTexts}}

\* the lines of the package's tests
ExOnceIsEnough == <<"T", " ", "S", " ", "[", "y", "i", "1", " ", "z", "h", "i", "1", " ", "w", "e", "i", "2", " ", "s", "h", "e", "n", "4", "]", " ", "/", "O", "n", "c", "e", " ", "i", "s", " ", "e", "n", "o", "u", "g", "h", " ", "(", "i", "d", "i", "o", "m", ")", "/">>
ExOneSide == <<"T", " ", "T", " ", "[", "y", "i", "1", " ", "b", "i", "4", "]", " ", "/", "o", "n", "e", " ", "s", "i", "d", "e", "/", "a", "t", " ", "t", "h", "e", " ", "s", "a", "m", "e", " ", "t", "i", "m", "e", "/">>

\* lines with a missing script form or with nothing between two slashes
EmptyFieldLines ==
    {EntryLine(t, sm, <<"a", "1">>, ds) :
        t \in {<<>>, <<"A">>}, sm \in {<<>>, <<"B", "b">>},
        ds \in {<<<<"d">>>>, <<<<"d">>, <<>>, <<"e">>>>, <<<<>>, <<"d">>>>, <<<<>>>>, <<<<>>, <<>>>>}}

ParseInputs ==
    GrammarLines \cup DamagedLines \cup EmptyFieldLines
        \cup {ExOnceIsEnough, ExOneSide, <<>>}

InitParse ==
    /\ ScannerIdle
    /\ call = "none" /\ ret = "none"
    /\ arg \in ParseInputs
    /\ tonearg = 0
    /\ out = <<>>

CallParseEntry ==
    /\ call = "none"
    /\ call' = "parseEntry"
    /\ out' = parseEntry(arg)
    /\ UNCHANGED <<scannerVars, ret, arg, tonearg>>

NextParse == CallParseEntry

SpecParse == InitParse /\ [][NextParse]_vars

(* C3: for every line TRAD SIMP [PINYIN] /DEF1/.../DEFn/ parseEntry returns  *)
(* an Entry whose Traditional is TRAD, whose Simplified is SIMP, whose      *)
(* Pinyin is the lower-cased text between the first "[" and the next "]",   *)
(* and whose Definitions is exactly DEF1..DEFn in order.                    *)
C3_ParseRecoversFields ==
    call = "parseEntry" =>
        \A t \in ScriptForms, sm \in ScriptForms, py \in PinyinFields, ds \in DefLists :
            arg = EntryLine(t, sm, py, ds) =>
                /\ out.kind = "ok"
                /\ out.e.Traditional = t
                /\ out.e.Simplified = sm
                /\ out.e.Pinyin = ToLower(py)
                /\ out.e.Definitions = ds

(* C12: every Entry that parseEntry returns has at least one definition,   *)
(* no empty definition string, and non-empty Traditional and Simplified    *)
(* fields; a line with "//" in its definitions or without a script form    *)
(* does not become an Entry with an empty field.                           *)
C12_NoEmptyFields ==
    (call = "parseEntry" /\ out.kind = "ok") =>
        /\ Len(out.e.Definitions) >= 1
        /\ \A i \in 1..Len(out.e.Definitions) : Len(out.e.Definitions[i]) > 0
        /\ Len(out.e.Traditional) > 0
        /\ Len(out.e.Simplified) > 0

\* the part of C12 that the code ensures: an Entry has a definition
C12_SomeDefinition ==
    (call = "parseEntry" /\ out.kind = "ok") => Len(out.e.Definitions) >= 1

\* C12's case: an accepted line with an empty definition, or an empty script form
C12_EmptyDefinitionReturned ==
    /\ call = "parseEntry" /\ out.kind = "ok"
    /\ Len(out.e.Traditional) > 0 /\ Len(out.e.Simplified) > 0
    /\ \E i \in 1..Len(out.e.Definitions) : out.e.Definitions[i] = <<>>

C12_EmptyScriptFormReturned ==
    /\ call = "parseEntry" /\ out.kind = "ok"
    /\ out.e.Traditional = <<>> /\ out.e.Simplified = <<>>
    /\ \A i \in 1..Len(out.e.Definitions) : out.e.Definitions[i] # <<>>

\* the model reproduces TestParseEntry's second case
ParseExamples ==
    /\ (call = "parseEntry" /\ arg = ExOneSide) =>
          /\ out.kind = "ok"
          /\ out.e.Traditional = <<"T">> /\ out.e.Simplified = <<"T">>
          /\ out.e.Pinyin = <<"y","i","1"," ","b","i","4">>
          /\ Len(out.e.Definitions) = 2
          /\ out.e.PinyinNoTones = <<"y","i","b","i">>
    /\ (call = "parseEntry" /\ arg = <<>>) => out.kind = "BadFormat"

=============================================================================
